---------------------------- MODULE Spec2Model ----------------------------
(***************************************************************************)
(* Model of the network test utility (class NetworkTester and the two      *)
(* convenience functions isNetworkGood and getNetworkStatus).              *)
(*                                                                         *)
(* Units.  Clock readings (performance.now()) and durations are whole      *)
(* milliseconds.  A throughput is kept in hundredths of a Mbps, which is   *)
(* what Math.round(x * 100) / 100 returns, so 47.68 Mbps is 4768.  A value *)
(* that the code obtains by a division (avg, jitter) is kept as an exact   *)
(* fraction [n |-> numerator, d |-> denominator].  IEEE rounding of the    *)
(* intermediate doubles is not modelled; the non-finite results of a       *)
(* division by zero (NaN, Infinity) are.                                   *)
(***************************************************************************)
EXTENDS Integers, Sequences, FiniteSets, TLC

VARIABLES
    supplied,   \* the options object the constructor was given
    options,    \* this.options
    isBrowser,  \* this.isBrowser
    transport,  \* what the network can do in this run (the transport stub)
    now,        \* the reading of the monotonic clock
    call,       \* the public operation the caller has invoked, or "none"
    arg,        \* the argument of an analyzeQuality call
    ret,        \* what the caller got back: [kind, value]
    pc,         \* position of the measuring task
    lat,        \* locals of testLatency
    dl,         \* locals of testDownloadSpeed
    ul,         \* locals of testUploadSpeed
    run,        \* locals of runSpeedTest
    qc,         \* locals of quickCheck
    ppc,        \* position of the provider lookup task
    prov        \* locals of getNetworkProvider

vars == <<supplied, options, isBrowser, transport, now, call, arg, ret, pc, lat, dl, ul, run, qc,
          ppc, prov>>

\* what no method of an existing tester assigns (isNetworkGood and
\* getNetworkStatus construct a tester of their own)
fixed == <<supplied, options, isBrowser, transport>>

-----------------------------------------------------------------------------
(* Bounds of the model. *)

\* No transfer is delivered that would take a byte total past this.
MaxTotalBytes == 25000000

-----------------------------------------------------------------------------
(* Small helpers. *)

Abs(x) == IF x < 0 THEN -x ELSE x

RECURSIVE SeqSum(_)
SeqSum(s) == IF s = <<>> THEN 0 ELSE Head(s) + SeqSum(Tail(s))

\* Math.min(...s) and Math.max(...s) of a non-empty list
RECURSIVE SeqMin(_)
SeqMin(s) == IF Len(s) = 1 THEN Head(s)
             ELSE LET m == SeqMin(Tail(s)) IN IF Head(s) < m THEN Head(s) ELSE m

RECURSIVE SeqMax(_)
SeqMax(s) == IF Len(s) = 1 THEN Head(s)
             ELSE LET m == SeqMax(Tail(s)) IN IF Head(s) > m THEN Head(s) ELSE m

\* An exact fraction n/d, d > 0.
Frac(n, d) == [n |-> n, d |-> d]

\* A JavaScript value that may be null or undefined, or a string.
Null == [t |-> "null"]
Str(s) == [t |-> "str", s |-> s]

None == [kind |-> "none"]
Returned(v) == [kind |-> "return", value |-> v]
Thrown(e) == [kind |-> "throw", value |-> e]

-----------------------------------------------------------------------------
(* Constants of the program. *)

DEFAULT_OPTIONS ==
    [downloadTestDuration |-> 5,
     uploadTestDuration   |-> 5,
     latencyTestCount     |-> 5,
     testFileSize         |-> 1024 * 100]

QUALITY_THRESHOLDS ==
    [excellent |-> [download |-> 50, upload |-> 10, latency |-> 30],
     good      |-> [download |-> 25, upload |-> 5,  latency |-> 50],
     fair      |-> [download |-> 10, upload |-> 2,  latency |-> 100],
     poor      |-> [download |-> 5,  upload |-> 1,  latency |-> 200]]

\* testUrls of testLatency, testUrls of testDownloadSpeed, services of
\* getNetworkProvider, and the two single endpoints.
LatencyUrls == <<"www.cloudflare.com/cdn-cgi/trace",
                 "www.google.com/generate_204",
                 "1.1.1.1/cdn-cgi/trace">>

DownloadUrls == <<"speed.cloudflare.com/__down", "proof.ovh.net/files/10Mb.dat">>

UploadUrl == "httpbin.org/post"

Services == <<"ipapi.co", "ip-api.com">>

QuickCheckUrl == "www.google.com/generate_204"

\* A slip that would spread the defaults over the supplied options.
ConstructDefaultsWin(o) ==
    [k \in (DOMAIN DEFAULT_OPTIONS) \cup (DOMAIN o) |->
        IF k \in DOMAIN DEFAULT_OPTIONS THEN DEFAULT_OPTIONS[k] ELSE o[k]]

\* constructor: { ...DEFAULT_OPTIONS, ...options }
Construct(o) ==
    [k \in (DOMAIN DEFAULT_OPTIONS) \cup (DOMAIN o) |->
        IF k \in DOMAIN o THEN o[k] ELSE DEFAULT_OPTIONS[k]]

-----------------------------------------------------------------------------
(* analyzeQuality.  A speed is in hundredths of a Mbps, a latency is a     *)
(* fraction of milliseconds; a threshold t compares as 100 * t and t * d.  *)

\* speed >= t: a comparison with NaN is false, Infinity is above every t
SpeedAtLeast(speed, t) ==
    \/ speed.kind = "num" /\ speed.v >= 100 * t
    \/ speed.kind = "inf"

\* A slip that would turn the comparison of the latency round.
LatencyAtLeast(latency, t) == latency.n >= t * latency.d

\* latency <= t
LatencyAtMost(latency, t) == latency.n <= t * latency.d

MeetsTier(result, th) ==
    /\ SpeedAtLeast(result.downloadSpeed, th.download)
    /\ SpeedAtLeast(result.uploadSpeed, th.upload)
    /\ LatencyAtMost(result.latency, th.latency)

\* A slip that would also check the (unused) poor.latency threshold.
MeetsPoorWithLatency(result) == MeetsTier(result, QUALITY_THRESHOLDS.poor)

MeetsPoor(result) ==
    /\ SpeedAtLeast(result.downloadSpeed, QUALITY_THRESHOLDS.poor.download)
    /\ SpeedAtLeast(result.uploadSpeed, QUALITY_THRESHOLDS.poor.upload)

Quality(result) ==
    IF MeetsTier(result, QUALITY_THRESHOLDS.excellent) THEN "excellent"
    ELSE IF MeetsTier(result, QUALITY_THRESHOLDS.good) THEN "good"
    ELSE IF MeetsTier(result, QUALITY_THRESHOLDS.fair) THEN "fair"
    ELSE IF MeetsPoor(result) THEN "poor"
    ELSE "very-poor"

analyzeQuality(result) ==
    [quality       |-> Quality(result),
     downloadSpeed |-> result.downloadSpeed,
     uploadSpeed   |-> result.uploadSpeed,
     latency       |-> result.latency]



-----------------------------------------------------------------------------
(* What the network can do: the time a request takes (0: the clock reading  *)
(* did not change while it was in flight) and what it delivers.  A         *)
(* transport is a record of the sets the outcomes are drawn from.          *)

\* What an IP-info service answers: the fields the code reads.
NoData == [org |-> Null, asn |-> Null, country_name |-> Null, isp |-> Null,
           country |-> Null, as |-> Null]

MtnData ==
    [NoData EXCEPT !.org = Str("AS12345 MTN Nigeria Communications"),
                   !.asn = Str("AS12345"),
                   !.country_name = Str("Nigeria"),
                   !.isp = Str("MTN Nigeria"),
                   !.country = Str("Nigeria"),
                   !.as = Str("AS12345 MTN")]

PartialData ==
    [NoData EXCEPT !.org = Str(""),
                   !.asn = Str("AS9999 Some Random Telco"),
                   !.isp = Str("Airtel Networks")]

Transport ==
    [probeDelays    |-> {0, 90, 100, 110, 120, 130},
     failDelays     |-> {0, 100},
     transferDelays |-> {0, 1000, 2000},
     postDelays     |-> {0, 1000, 2000},
     \* byteLength of a whole body
     bodySizes      |-> {0, 10000000, 12500000},
     \* length of one chunk of a streamed body (0: value?.length || 0)
     chunkSizes     |-> {0, 12500000},
     lookupDelays   |-> {0, 100, 250},
     answers        |-> {NoData, MtnData, PartialData}]

\* A coarser transport for the operations that run several sub-tests.
CoarseTransport ==
    [probeDelays    |-> {0, 40},
     failDelays     |-> {0},
     transferDelays |-> {3000},
     postDelays     |-> {3000},
     bodySizes      |-> {12500000},
     chunkSizes     |-> {12500000},
     lookupDelays   |-> {0},
     answers        |-> {MtnData}]

\* A fast network: 20 ms probes, a 25 MB body in two steps of 2.5 s, the
\* default 100 KB payload posted in 125 ms.
FastTransport ==
    [probeDelays    |-> {20},
     failDelays     |-> {0},
     transferDelays |-> {2500},
     postDelays     |-> {125},
     bodySizes      |-> {25000000},
     chunkSizes     |-> {25000000},
     lookupDelays   |-> {0},
     answers        |-> {MtnData}]

-----------------------------------------------------------------------------
(* The state after construction: new NetworkTester(o). *)

NoArg == [kind |-> "none"]

LatIdle == [i |-> 0, start |-> 0, url |-> "", latencies |-> <<>>, probes |-> <<>>]

\* besides the locals: last is the endpoint of the last request sent, late
\* the kinds of operation started with the clock at or past the deadline,
\* after the number of operations that completed at or past the deadline
DlIdle == [totalBytes |-> 0, startTime |-> 0, endTime |-> 0, url |-> 0,
           streaming |-> FALSE, anyOk |-> FALSE,
           last |-> 0, late |-> {}, after |-> 0]

\* besides the locals: failed tells that a POST was rejected
UlIdle == [totalBytes |-> 0, startTime |-> 0, endTime |-> 0, posts |-> 0,
           anyOk |-> FALSE, failed |-> FALSE, late |-> {}, after |-> 0]

\* an operation of a sub-test r is started at clock reading t
StartedLate(r, kind, t) == IF t >= r.endTime THEN r.late \cup {kind} ELSE r.late

\* an operation of a sub-test r completes or fails at clock reading t
CompletedAfter(r, t) == IF t >= r.endTime THEN r.after + 1 ELSE r.after

RunIdle == [latency |-> None, downloadSpeed |-> None, uploadSpeed |-> None,
            events |-> <<>>, result |-> None]

\* outcome and end record how the probe ended
QcIdle == [start |-> 0, outcome |-> "none", end |-> 0]

ProvIdle == [service |-> 0, queried |-> <<>>, result |-> None]

InitWith(O, T) ==
    /\ \E o \in O :
          /\ supplied = o
          /\ options = Construct(o)
    /\ isBrowser \in BOOLEAN
    /\ transport = T
    /\ now = 0
    /\ call = "none"
    /\ arg = NoArg
    /\ ret = None
    /\ pc = "idle"
    /\ lat = LatIdle
    /\ dl = DlIdle
    /\ ul = UlIdle
    /\ run = RunIdle
    /\ qc = QcIdle
    /\ ppc = "idle"
    /\ prov = ProvIdle

\* The options objects a caller passes: none, and overrides.
NoOptions == << >>

-----------------------------------------------------------------------------
(* analyzeQuality called on a result the caller supplies. *)

SampleSpeeds ==
    {[kind |-> "num", v |-> x] :
        x \in {0, 99, 100, 199, 200, 499, 500, 999, 1000, 2499, 2500,
               4990, 4999, 5000, 9000}}

SampleLatencies ==
    {Frac(n, 1) : n \in {0, 30, 31, 50, 51, 100, 101, 200, 201}}
        \cup {Frac(91, 3), Frac(89, 3)}

SampleResults ==
    [downloadSpeed : SampleSpeeds, uploadSpeed : SampleSpeeds,
     latency : SampleLatencies]

Call_analyzeQuality ==
    /\ call = "none"
    /\ \E result \in SampleResults :
          /\ arg' = result
          /\ ret' = Returned(analyzeQuality(result))
    /\ call' = "analyzeQuality"
    /\ UNCHANGED <<fixed, now, pc, lat, dl, ul, run, qc, ppc, prov>>

SpecQuality == InitWith({NoOptions}, Transport) /\ [][Call_analyzeQuality]_vars

-----------------------------------------------------------------------------
(* testLatency.                                                            *)

\* lines 122-129: avg, min, max and jitter of a non-empty list
RECURSIVE SumAbsDev(_, _, _)
SumAbsDev(s, sum, len) ==
    IF s = <<>> THEN 0
    ELSE Abs(len * Head(s) - sum) + SumAbsDev(Tail(s), sum, len)

\* A slip that would report the standard form of a spread, the range.
JitterAsRange(latencies) == Frac(SeqMax(latencies) - SeqMin(latencies), 1)

\* sum over lat of |lat - avg|, divided by length: with avg = sum/len this
\* is (sum over lat of |len * lat - sum|) / len^2
Jitter(latencies) ==
    Frac(SumAbsDev(latencies, SeqSum(latencies), Len(latencies)),
         Len(latencies) * Len(latencies))

\* A slip that would take the extrema the wrong way round.
LatencyMinAsMax(latencies) == SeqMax(latencies)

LatencyMin(latencies) == SeqMin(latencies)

LatencyStats(latencies) ==
    [avg    |-> Frac(SeqSum(latencies), Len(latencies)),
     jitter |-> Jitter(latencies),
     min    |-> LatencyMin(latencies),
     max    |-> SeqMax(latencies)]

\* A slip in the emptiness test: one sample would not be enough.
LatencyOutcomeOffByOne(latencies) ==
    IF Len(latencies) <= 1
    THEN Thrown("All latency tests failed")
    ELSE Returned(LatencyStats(latencies))

\* lines 118-129: what testLatency does once its loop has ended
LatencyOutcome(latencies) ==
    IF Len(latencies) = 0
    THEN Thrown("All latency tests failed")
    ELSE Returned(LatencyStats(latencies))

\* the start of testLatency, up to its loop
EnterLatency == [LatIdle EXCEPT !.i = 0]

Call_testLatency ==
    /\ call = "none"
    /\ call' = "testLatency"
    /\ pc' = "lat_loop"
    /\ lat' = EnterLatency
    /\ UNCHANGED <<fixed, now, arg, ret, dl, ul, run, qc, ppc, prov>>

\* A slip that would pick the endpoint by the number of samples so far.
LatencyProbeBySamples ==
    /\ pc = "lat_loop"
    /\ lat.i < options.latencyTestCount
    /\ lat' = [lat EXCEPT
                  !.url = LatencyUrls[(Len(lat.latencies) % Len(LatencyUrls)) + 1],
                  !.start = now]
    /\ pc' = "lat_wait"
    /\ UNCHANGED <<fixed, now, call, arg, ret, dl, ul, run, qc, ppc, prov>>

\* lines 95-109: one more iteration: pick the endpoint, read the clock, send
LatencyProbe ==
    /\ pc = "lat_loop"
    /\ lat.i < options.latencyTestCount
    /\ lat' = [lat EXCEPT !.url = LatencyUrls[(lat.i % Len(LatencyUrls)) + 1],
                          !.start = now]
    /\ pc' = "lat_wait"
    /\ UNCHANGED <<fixed, now, call, arg, ret, dl, ul, run, qc, ppc, prov>>

\* lines 111-112: the request completed after d ms
ProbeOk ==
    /\ pc = "lat_wait"
    /\ \E d \in transport.probeDelays :
          /\ now' = now + d
          /\ lat' = [lat EXCEPT !.latencies = Append(@, now' - lat.start),
                                !.probes = Append(@, [url |-> lat.url, ok |-> TRUE,
                                                      sample |-> d]),
                                !.i = @ + 1]
    /\ pc' = "lat_loop"
    /\ UNCHANGED <<fixed, call, arg, ret, dl, ul, run, qc, ppc, prov>>

\* lines 113-115: the request (or the import of https) failed after d ms: a
\* warning, and no sample
ProbeFail ==
    /\ pc = "lat_wait"
    /\ \E d \in transport.failDelays :
          /\ now' = now + d
          /\ lat' = [lat EXCEPT !.probes = Append(@, [url |-> lat.url, ok |-> FALSE,
                                                      sample |-> -1]),
                                !.i = @ + 1]
    /\ pc' = "lat_loop"
    /\ UNCHANGED <<fixed, call, arg, ret, dl, ul, run, qc, ppc, prov>>

-----------------------------------------------------------------------------
(* The throughput of totalBytes over elapsed ms, lines 174-178 and 217-221: *)
(*   duration  = elapsed / 1000                                            *)
(*   speedBps  = totalBytes / duration                                     *)
(*   speedMbps = speedBps * 8 / (1024 * 1024)                              *)
(*   Math.round(speedMbps * 100) / 100                                     *)
(* In hundredths this is Math.round(totalBytes * 800000 / (1048576 *       *)
(* elapsed)) = Math.round(totalBytes * 3125 / (4096 * elapsed)).  The       *)
(* product does not fit the checker's integers, so the quotient is carried *)
(* as q + r/D through five multiplications by 5 (3125 = 5^5).              *)

Times5(x, D) == [q |-> 5 * x.q + (5 * x.r) \div D, r |-> (5 * x.r) % D]

Times3125(x, D) == Times5(Times5(Times5(Times5(Times5(x, D), D), D), D), D)

\* Math.round: to the nearest integer, a half going up
MathRound(x, D) == x.q + (IF 2 * x.r >= D THEN 1 ELSE 0)

SpeedMbps(totalBytes, elapsed) ==
    IF elapsed = 0
    THEN \* a division by a zero duration: 0/0 is NaN, x/0 is Infinity, and
         \* Math.round and the division by 100 keep both
         IF totalBytes = 0 THEN [kind |-> "nan"] ELSE [kind |-> "inf"]
    ELSE LET D == 4096 * elapsed
         IN  [kind |-> "num",
              v |-> MathRound(Times3125([q |-> totalBytes \div D,
                                         r |-> totalBytes % D], D), D)]

-----------------------------------------------------------------------------
(* testDownloadSpeed.  dl.url is the index in testUrls of the request that  *)
(* is next or in flight.  The outer while and the for loop test the same    *)
(* clock against the same deadline with no suspension in between, so the    *)
(* two tests are one step: send the next request, or leave both loops.     *)

\* lines 142-144
EnterDownload(t) ==
    [DlIdle EXCEPT !.startTime = t,
                   !.endTime = t + options.downloadTestDuration * 1000,
                   !.url = 1]

\* A slip that would ask the same endpoint again.
NextUrlSame(k) == k

\* the endpoint after endpoint k: the for loop's next, or the first again
\* once the for loop has ended and the while loop goes round
NextUrl(k) == (k % Len(DownloadUrls)) + 1

\* A slip that would measure against the configured duration.
DownloadSpeedNominal(d, t) ==
    SpeedMbps(d.totalBytes, options.downloadTestDuration * 1000)

\* lines 174-178, the clock reading t
DownloadSpeed(d, t) == SpeedMbps(d.totalBytes, t - d.startTime)

\* lines 147-152: the deadline has not passed: fetch the next endpoint
DownloadFetch ==
    /\ pc = "dl_loop"
    /\ now < dl.endTime
    /\ dl' = [dl EXCEPT !.last = dl.url, !.late = StartedLate(dl, "fetch", now)]
    /\ pc' = "dl_fetch"
    /\ UNCHANGED <<fixed, now, call, arg, ret, lat, ul, run, qc, ppc, prov>>

\* line 152 resolves; lines 154-155 in a browser with a body stream, else
\* line 165 asks for the whole body
FetchOk ==
    /\ pc = "dl_fetch"
    /\ \E d \in transport.transferDelays, hasBody \in BOOLEAN :
          /\ now' = now + d
          /\ dl' = [dl EXCEPT !.streaming = isBrowser /\ hasBody, !.anyOk = TRUE,
                              !.after = CompletedAfter(dl, now'),
                              !.late = IF isBrowser /\ hasBody THEN @
                                       ELSE StartedLate(dl, "buffer", now')]
          /\ pc' = IF isBrowser /\ hasBody THEN "dl_stream" ELSE "dl_buffer"
    /\ UNCHANGED <<fixed, call, arg, ret, lat, ul, run, qc, ppc, prov>>

\* lines 168-170: fetch, reader.read or arrayBuffer rejected
RequestFailed ==
    /\ pc \in {"dl_fetch", "dl_read", "dl_buffer"}
    /\ \E d \in transport.transferDelays :
          now' = now + d
    /\ dl' = [dl EXCEPT !.url = NextUrl(@), !.streaming = FALSE,
                        !.after = CompletedAfter(dl, now')]
    /\ pc' = "dl_loop"
    /\ UNCHANGED <<fixed, call, arg, ret, lat, ul, run, qc, ppc, prov>>

\* A slip that would read the next chunk without looking at the clock.
StreamReadUnchecked ==
    /\ pc = "dl_stream"
    /\ dl' = [dl EXCEPT !.late = StartedLate(dl, "read", now)]
    /\ pc' = "dl_read"
    /\ UNCHANGED <<fixed, now, call, arg, ret, lat, ul, run, qc, ppc, prov>>

\* line 157-158: the deadline has not passed: read one more chunk
StreamRead ==
    /\ pc = "dl_stream"
    /\ now < dl.endTime
    /\ dl' = [dl EXCEPT !.late = StartedLate(dl, "read", now)]
    /\ pc' = "dl_read"
    /\ UNCHANGED <<fixed, now, call, arg, ret, lat, ul, run, qc, ppc, prov>>

\* lines 157, 163: the deadline passed between two reads: cancel the reader
StreamDeadline ==
    /\ pc = "dl_stream"
    /\ now >= dl.endTime
    /\ dl' = [dl EXCEPT !.url = NextUrl(@), !.streaming = FALSE]
    /\ pc' = "dl_loop"
    /\ UNCHANGED <<fixed, now, call, arg, ret, lat, ul, run, qc, ppc, prov>>

\* lines 158-160: a chunk arrived
ReadChunk ==
    /\ pc = "dl_read"
    /\ \E d \in transport.transferDelays, n \in transport.chunkSizes :
          /\ dl.totalBytes + n <= MaxTotalBytes
          /\ now' = now + d
          /\ dl' = [dl EXCEPT !.totalBytes = @ + n,
                              !.after = CompletedAfter(dl, now')]
    /\ pc' = "dl_stream"
    /\ UNCHANGED <<fixed, call, arg, ret, lat, ul, run, qc, ppc, prov>>

\* lines 159, 163: the body ended
ReadDone ==
    /\ pc = "dl_read"
    /\ \E d \in transport.transferDelays :
          now' = now + d
    /\ dl' = [dl EXCEPT !.url = NextUrl(@), !.streaming = FALSE,
                        !.after = CompletedAfter(dl, now')]
    /\ pc' = "dl_loop"
    /\ UNCHANGED <<fixed, call, arg, ret, lat, ul, run, qc, ppc, prov>>

\* lines 165-166: the whole body arrived
BufferOk ==
    /\ pc = "dl_buffer"
    /\ \E d \in transport.transferDelays, n \in transport.bodySizes :
          /\ dl.totalBytes + n <= MaxTotalBytes
          /\ now' = now + d
          /\ dl' = [dl EXCEPT !.totalBytes = @ + n, !.url = NextUrl(@),
                              !.after = CompletedAfter(dl, now')]
    /\ pc' = "dl_loop"
    /\ UNCHANGED <<fixed, call, arg, ret, lat, ul, run, qc, ppc, prov>>

-----------------------------------------------------------------------------
(* testUploadSpeed.                                                        *)

\* lines 190, 197-199: data.length is testFileSize
EnterUpload(t) ==
    [UlIdle EXCEPT !.startTime = t,
                   !.endTime = t + options.uploadTestDuration * 1000]

\* lines 217-221, the clock reading t
UploadSpeed(u, t) == SpeedMbps(u.totalBytes, t - u.startTime)

\* lines 202-208: the deadline has not passed: POST the payload
UploadPost ==
    /\ pc = "ul_loop"
    /\ now < ul.endTime
    /\ ul' = [ul EXCEPT !.posts = @ + 1, !.late = StartedLate(ul, "post", now)]
    /\ pc' = "ul_post"
    /\ UNCHANGED <<fixed, now, call, arg, ret, lat, dl, run, qc, ppc, prov>>

\* line 210: the POST resolved
PostOk ==
    /\ pc = "ul_post"
    /\ ul.totalBytes + options.testFileSize <= MaxTotalBytes
    /\ \E d \in transport.postDelays :
          now' = now + d
    /\ ul' = [ul EXCEPT !.totalBytes = @ + options.testFileSize, !.anyOk = TRUE,
                        !.after = CompletedAfter(ul, now')]
    /\ pc' = "ul_loop"
    /\ UNCHANGED <<fixed, call, arg, ret, lat, dl, run, qc, ppc, prov>>

-----------------------------------------------------------------------------
(* Strings.                                                                *)

\* !v of a string or null: null, undefined and "" are falsy
Falsy(v) == v.t = "null" \/ v.s = ""

\* a || b
OrElse(a, b) == IF Falsy(a) THEN b ELSE a

\* s[i], from 1
Char(s, i) == SubSeq(s, i, i)

UpperChars == "ABCDEFGHIJKLMNOPQRSTUVWXYZ"

LowerChars == "abcdefghijklmnopqrstuvwxyz"

LowerChar(c) ==
    IF \E i \in 1..Len(UpperChars) : Char(UpperChars, i) = c
    THEN Char(LowerChars, CHOOSE i \in 1..Len(UpperChars) : Char(UpperChars, i) = c)
    ELSE c

RECURSIVE toLowerCase(_)
toLowerCase(s) == IF s = "" THEN "" ELSE LowerChar(Head(s)) \o toLowerCase(Tail(s))

includes(s, sub) ==
    \E i \in 0..(Len(s) - Len(sub)) : SubSeq(s, i + 1, i + Len(sub)) = sub

IsDigit(c) == c \in {"0", "1", "2", "3", "4", "5", "6", "7", "8", "9"}

\* the white space of \s and of trim() that occurs in the sample strings
IsSpace(c) == c \in {" ", "\t"}

\* how many characters of s from position i on are all digits (digits =
\* TRUE) or all white space (digits = FALSE)
RECURSIVE RunLength(_, _, _)
RunLength(s, i, digits) ==
    IF i > Len(s) THEN 0
    ELSE IF (IF digits THEN IsDigit(Char(s, i)) ELSE IsSpace(Char(s, i)))
         THEN 1 + RunLength(s, i + 1, digits)
         ELSE 0

\* A slip that would strip the prefix only in upper case.
StripAsPrefixUpperOnly(s) ==
    IF Len(s) >= 2 /\ Char(s, 1) = "A" /\ Char(s, 2) = "S"
    THEN LET nd == RunLength(s, 3, TRUE)
             ns == RunLength(s, 3 + nd, FALSE)
         IN  IF nd >= 1 /\ ns >= 1 THEN SubSeq(s, 3 + nd + ns, Len(s)) ELSE s
    ELSE s

\* s.replace(/^(AS\d+\s+)/i, '')
StripAsPrefix(s) ==
    IF Len(s) >= 2 /\ LowerChar(Char(s, 1)) = "a" /\ LowerChar(Char(s, 2)) = "s"
    THEN LET nd == RunLength(s, 3, TRUE)
             ns == RunLength(s, 3 + nd, FALSE)
         IN  IF nd >= 1 /\ ns >= 1 THEN SubSeq(s, 3 + nd + ns, Len(s)) ELSE s
    ELSE s

RECURSIVE TrimLeft(_)
TrimLeft(s) == IF s # "" /\ IsSpace(Head(s)) THEN TrimLeft(Tail(s)) ELSE s

RECURSIVE TrimRight(_)
TrimRight(s) ==
    IF s # "" /\ IsSpace(Char(s, Len(s)))
    THEN TrimRight(SubSeq(s, 1, Len(s) - 1))
    ELSE s

trim(s) == TrimLeft(TrimRight(s))

\* lines 324-345
normalizeProviderName(orgString) ==
    IF Falsy(orgString) THEN Null
    ELSE LET lower == toLowerCase(orgString.s)
         IN  IF includes(lower, "mtn") THEN Str("MTN")
             ELSE IF includes(lower, "airtel") THEN Str("Airtel")
             ELSE IF includes(lower, "glo") \/ includes(lower, "globacom")
                  THEN Str("Glo")
             ELSE IF includes(lower, "9mobile") \/ includes(lower, "etisalat")
                  THEN Str("9mobile")
             ELSE IF includes(lower, "vodafone") THEN Str("Vodafone")
             ELSE IF includes(lower, "orange") THEN Str("Orange")
             ELSE IF includes(lower, "verizon") THEN Str("Verizon")
             ELSE IF includes(lower, "at&t") \/ includes(lower, "att")
                  THEN Str("AT&T")
             ELSE IF includes(lower, "t-mobile") THEN Str("T-Mobile")
             ELSE IF includes(lower, "telkom") THEN Str("Telkom")
             ELSE Str(trim(StripAsPrefix(orgString.s)))

\* lines 293-306: the answer of service k mapped to a NetworkProvider
ProviderFrom(k, data) ==
    IF includes(Services[k], "ipapi.co")
    THEN [name    |-> normalizeProviderName(OrElse(data.org, data.asn)),
          country |-> OrElse(data.country_name, Null),
          isp     |-> OrElse(data.org, Null),
          asn     |-> OrElse(data.asn, Null)]
    ELSE [name    |-> normalizeProviderName(OrElse(data.isp, data.org)),
          country |-> OrElse(data.country, Null),
          isp     |-> OrElse(data.isp, Null),
          asn     |-> OrElse(data.as, Null)]

NoProvider == [name |-> Null, country |-> Null, isp |-> Null, asn |-> Null]

-----------------------------------------------------------------------------
(* runSpeedTest, isNetworkGood and getNetworkStatus: what happens when a    *)
(* sub-test hands its outcome back.  Each operator gives the new values of *)
(* the variables the hand-over decides.                                    *)

\* A slip that would count a fair network as good.
IsGoodOrFair(quality) == quality \in {"excellent", "good", "fair"}

\* lines 376, 397
IsGood(quality) == quality \in {"excellent", "good"}

\* lines 394-401
StatusBundle(speedResult, provider) ==
    LET quality == analyzeQuality(speedResult)
    IN  [isGood   |-> IsGood(quality.quality),
         quality  |-> quality.quality,
         speed    |-> speedResult.downloadSpeed,
         provider |-> provider.name]

\* A slip that would swallow the error of the latency sub-test and answer
\* "not good" instead.
FinishRunSwallow(out) ==
    IF out.kind = "throw" THEN Returned(FALSE)
    ELSE IF call = "runSpeedTest" THEN out
    ELSE IF call = "isNetworkGood"
         THEN Returned(IsGood(analyzeQuality(out.value).quality))
    ELSE IF prov.result.kind = "return"
         THEN Returned(StatusBundle(out.value, prov.result.value))
    ELSE ret

\* runSpeedTest has ended with outcome out: lines 373-376 for isNetworkGood,
\* lines 389-401 for getNetworkStatus (Promise.all rejects with the first
\* rejection, and resolves once both have resolved)
FinishRun(out) ==
    IF call = "runSpeedTest" \/ out.kind = "throw" THEN out
    ELSE IF call = "isNetworkGood"
         THEN Returned(IsGood(analyzeQuality(out.value).quality))
    ELSE IF prov.result.kind = "return"
         THEN Returned(StatusBundle(out.value, prov.result.value))
    ELSE ret

\* testLatency has ended with outcome out: line 70, then line 71
AfterLatency(out) ==
    IF call = "testLatency" THEN [ret |-> out, pc |-> "done", run |-> run, dl |-> dl]
    ELSE IF out.kind = "throw"
         THEN [ret |-> FinishRun(out), pc |-> "done",
               run |-> [run EXCEPT !.result = out], dl |-> dl]
    ELSE [ret |-> ret, pc |-> "dl_loop",
          run |-> [run EXCEPT !.latency = out.value,
                              !.events = @ \o <<"latency.end", "download.start">>],
          dl |-> EnterDownload(now)]

\* testDownloadSpeed has returned speed at clock reading t: line 71, then 72
AfterDownload(speed, t) ==
    IF call = "testDownloadSpeed"
    THEN [ret |-> Returned(speed), pc |-> "done", run |-> run, ul |-> ul]
    ELSE [ret |-> ret, pc |-> "ul_loop",
          run |-> [run EXCEPT !.downloadSpeed = speed,
                              !.events = @ \o <<"download.end", "upload.start">>],
          ul |-> EnterUpload(t)]

\* A slip that would swap the two latency fields of the result.
RunResultSwapped(r, uploadSpeed, t) ==
    [downloadSpeed |-> r.downloadSpeed,
     uploadSpeed   |-> uploadSpeed,
     latency       |-> r.latency.jitter,
     jitter        |-> r.latency.avg,
     timestamp     |-> t]

\* lines 74-80
RunResult(r, uploadSpeed, t) ==
    [downloadSpeed |-> r.downloadSpeed,
     uploadSpeed   |-> uploadSpeed,
     latency       |-> r.latency.avg,
     jitter        |-> r.latency.jitter,
     timestamp     |-> t]

\* testUploadSpeed has returned speed at clock reading t: line 72, then 74-80
AfterUpload(speed, t) ==
    IF call = "testUploadSpeed"
    THEN [ret |-> Returned(speed), pc |-> "done", run |-> run]
    ELSE LET out == Returned(RunResult(run, speed, t))
         IN  [ret |-> FinishRun(out), pc |-> "done",
              run |-> [run EXCEPT !.uploadSpeed = speed,
                                  !.events = @ \o <<"upload.end", "timestamp">>,
                                  !.result = out]]

\* lines 116-129: the loop of testLatency has ended
LatencyFinish ==
    /\ pc = "lat_loop"
    /\ lat.i >= options.latencyTestCount
    /\ LET c == AfterLatency(LatencyOutcome(lat.latencies))
       IN  /\ ret' = c.ret
           /\ pc' = c.pc
           /\ run' = c.run
           /\ dl' = c.dl
    /\ UNCHANGED <<fixed, now, call, arg, lat, ul, qc, ppc, prov>>

\* A slip in the exit test: the loops would be left only with the clock
\* past the deadline, and not at it.
DownloadFinishStrict ==
    /\ pc = "dl_loop"
    /\ now > dl.endTime
    /\ LET c == AfterDownload(DownloadSpeed(dl, now), now)
       IN  /\ ret' = c.ret
           /\ pc' = c.pc
           /\ run' = c.run
           /\ ul' = c.ul
    /\ UNCHANGED <<fixed, now, call, arg, lat, dl, qc, ppc, prov>>

\* lines 147, 174-178: the deadline has passed when the loops test it
DownloadFinish ==
    /\ pc = "dl_loop"
    /\ now >= dl.endTime
    /\ LET c == AfterDownload(DownloadSpeed(dl, now), now)
       IN  /\ ret' = c.ret
           /\ pc' = c.pc
           /\ run' = c.run
           /\ ul' = c.ul
    /\ UNCHANGED <<fixed, now, call, arg, lat, dl, qc, ppc, prov>>

\* lines 202, 217-221: the deadline has passed when the loop tests it
UploadFinish ==
    /\ pc = "ul_loop"
    /\ now >= ul.endTime
    /\ LET c == AfterUpload(UploadSpeed(ul, now), now)
       IN  /\ ret' = c.ret
           /\ pc' = c.pc
           /\ run' = c.run
    /\ UNCHANGED <<fixed, now, call, arg, lat, dl, ul, qc, ppc, prov>>

\* A slip that would go round the loop again after a rejected POST.
PostFailRetry ==
    /\ pc = "ul_post"
    /\ \E d \in transport.postDelays :
          /\ now' = now + d
          /\ ul' = [ul EXCEPT !.failed = TRUE, !.after = CompletedAfter(ul, now')]
    /\ pc' = "ul_loop"
    /\ UNCHANGED <<fixed, call, arg, ret, lat, dl, run, qc, ppc, prov>>

\* lines 211-221: the POST rejected after d ms: break, and the result
PostFail ==
    /\ pc = "ul_post"
    /\ \E d \in transport.postDelays :
          /\ now' = now + d
          /\ ul' = [ul EXCEPT !.failed = TRUE, !.after = CompletedAfter(ul, now')]
          /\ LET c == AfterUpload(UploadSpeed(ul, now'), now')
             IN  /\ ret' = c.ret
                 /\ pc' = c.pc
                 /\ run' = c.run
    /\ UNCHANGED <<fixed, call, arg, lat, dl, qc, ppc, prov>>

Call_testDownloadSpeed ==
    /\ call = "none"
    /\ call' = "testDownloadSpeed"
    /\ pc' = "dl_loop"
    /\ dl' = EnterDownload(now)
    /\ UNCHANGED <<fixed, now, arg, ret, lat, ul, run, qc, ppc, prov>>

Call_testUploadSpeed ==
    /\ call = "none"
    /\ call' = "testUploadSpeed"
    /\ pc' = "ul_loop"
    /\ ul' = EnterUpload(now)
    /\ UNCHANGED <<fixed, now, arg, ret, lat, dl, run, qc, ppc, prov>>

\* line 70: runSpeedTest enters testLatency
EnterRun == [RunIdle EXCEPT !.events = <<"latency.start">>]

Call_runSpeedTest ==
    /\ call = "none"
    /\ call' = "runSpeedTest"
    /\ run' = EnterRun
    /\ pc' = "lat_loop"
    /\ lat' = EnterLatency
    /\ UNCHANGED <<fixed, now, arg, ret, dl, ul, qc, ppc, prov>>

\* lines 372-373: a tester of its own, constructed without options
Call_isNetworkGood ==
    /\ call = "none"
    /\ call' = "isNetworkGood"
    /\ supplied' = NoOptions
    /\ options' = Construct(NoOptions)
    /\ run' = EnterRun
    /\ pc' = "lat_loop"
    /\ lat' = EnterLatency
    /\ UNCHANGED <<isBrowser, transport, now, arg, ret, dl, ul, qc, ppc, prov>>

-----------------------------------------------------------------------------
(* getNetworkProvider.  prov.service is the index in services of the       *)
(* service that is next or being asked.                                    *)

EnterProvider == [ProvIdle EXCEPT !.service = 1]

\* getNetworkProvider has returned info: to its caller, or to the
\* Promise.all of getNetworkStatus
AfterProvider(info) ==
    IF call = "getNetworkProvider" THEN Returned(info)
    ELSE IF run.result.kind = "return"
         THEN Returned(StatusBundle(run.result.value, info))
    ELSE ret

Call_getNetworkProvider ==
    /\ call = "none"
    /\ call' = "getNetworkProvider"
    /\ ppc' = "prov_loop"
    /\ prov' = EnterProvider
    /\ UNCHANGED <<fixed, now, arg, ret, pc, lat, dl, ul, run, qc>>

\* lines 388-392: a tester of its own, constructed without options; both
\* operations are started on it
Call_getNetworkStatus ==
    /\ call = "none"
    /\ call' = "getNetworkStatus"
    /\ supplied' = NoOptions
    /\ options' = Construct(NoOptions)
    /\ run' = EnterRun
    /\ pc' = "lat_loop"
    /\ lat' = EnterLatency
    /\ ppc' = "prov_loop"
    /\ prov' = EnterProvider
    /\ UNCHANGED <<isBrowser, transport, now, arg, ret, dl, ul, qc>>

\* lines 287-289: ask the next service
ProviderFetch ==
    /\ ppc = "prov_loop"
    /\ prov.service <= Len(Services)
    /\ prov' = [prov EXCEPT !.queried = Append(@, Services[prov.service])]
    /\ ppc' = "prov_fetch"
    /\ UNCHANGED <<fixed, now, call, arg, ret, pc, lat, dl, ul, run, qc>>

\* line 289 resolves; line 290 reads the body
ProviderFetchOk ==
    /\ ppc = "prov_fetch"
    /\ \E d \in transport.lookupDelays :
          now' = now + d
    /\ ppc' = "prov_json"
    /\ UNCHANGED <<fixed, call, arg, ret, pc, lat, dl, ul, run, qc, prov>>

\* lines 290-306: the body parsed to data
ProviderAnswer ==
    /\ ppc = "prov_json"
    /\ \E d \in transport.lookupDelays, data \in transport.answers :
          /\ now' = now + d
          /\ LET info == ProviderFrom(prov.service, data)
             IN  /\ prov' = [prov EXCEPT !.result = Returned(info)]
                 /\ ret' = AfterProvider(info)
    /\ ppc' = "done"
    /\ UNCHANGED <<fixed, call, arg, pc, lat, dl, ul, run, qc>>

\* A slip that would give up after the first failure.
NextServiceGiveUp(k) == Len(Services) + 1

\* after the failure of service k: line 310
NextService(k) == k + 1

\* lines 308-311: fetch or json() rejected, or the data could not be read
ProviderFail ==
    /\ ppc \in {"prov_fetch", "prov_json"}
    /\ \E d \in transport.lookupDelays :
          now' = now + d
    /\ prov' = [prov EXCEPT !.service = NextService(@)]
    /\ ppc' = "prov_loop"
    /\ UNCHANGED <<fixed, call, arg, ret, pc, lat, dl, ul, run, qc>>

\* line 314: no service is left
ProviderExhausted ==
    /\ ppc = "prov_loop"
    /\ prov.service > Len(Services)
    /\ prov' = [prov EXCEPT !.result = Returned(NoProvider)]
    /\ ret' = AfterProvider(NoProvider)
    /\ ppc' = "done"
    /\ UNCHANGED <<fixed, now, call, arg, pc, lat, dl, ul, run, qc>>

-----------------------------------------------------------------------------
(* quickCheck.                                                             *)

\* lines 352-356
Call_quickCheck ==
    /\ call = "none"
    /\ call' = "quickCheck"
    /\ qc' = [QcIdle EXCEPT !.start = now]
    /\ pc' = "qc_wait"
    /\ UNCHANGED <<fixed, now, arg, ret, lat, dl, ul, run, ppc, prov>>

\* A slip that would report a failure as a latency of 0.
QuickOfflineZero == [isOnline |-> FALSE, latency |-> 0]

\* line 361
QuickOffline == [isOnline |-> FALSE, latency |-> -1]

\* lines 357-359
QuickCheckOk ==
    /\ pc = "qc_wait"
    /\ \E d \in transport.probeDelays :
          /\ now' = now + d
          /\ ret' = Returned([isOnline |-> TRUE, latency |-> now' - qc.start])
          /\ qc' = [qc EXCEPT !.outcome = "ok", !.end = now']
    /\ pc' = "done"
    /\ UNCHANGED <<fixed, call, arg, lat, dl, ul, run, ppc, prov>>

\* lines 360-362
QuickCheckFail ==
    /\ pc = "qc_wait"
    /\ \E d \in transport.failDelays :
          /\ now' = now + d
          /\ qc' = [qc EXCEPT !.outcome = "failed", !.end = now']
    /\ ret' = Returned(QuickOffline)
    /\ pc' = "done"
    /\ UNCHANGED <<fixed, call, arg, lat, dl, ul, run, ppc, prov>>

-----------------------------------------------------------------------------
(* Specifications: the tester is constructed, and the caller invokes one   *)
(* public operation on it.                                                 *)

LatencySteps == LatencyProbe \/ ProbeOk \/ ProbeFail \/ LatencyFinish

DownloadSteps ==
    \/ DownloadFetch \/ FetchOk \/ RequestFailed
    \/ StreamRead \/ StreamDeadline \/ ReadChunk \/ ReadDone
    \/ BufferOk \/ DownloadFinish

UploadSteps == UploadPost \/ PostOk \/ PostFail \/ UploadFinish

ProviderSteps ==
    \/ ProviderFetch \/ ProviderFetchOk \/ ProviderAnswer
    \/ ProviderFail \/ ProviderExhausted

SpecLatency ==
    /\ InitWith({NoOptions, [latencyTestCount |-> 2]}, Transport)
    /\ [][Call_testLatency \/ LatencySteps]_vars

SpecThroughput ==
    /\ InitWith({NoOptions, [downloadTestDuration |-> 1, uploadTestDuration |-> 1]},
                Transport)
    /\ [][Call_testDownloadSpeed \/ Call_testUploadSpeed
            \/ DownloadSteps \/ UploadSteps]_vars

SpecProvider ==
    /\ InitWith({NoOptions}, Transport)
    /\ [][Call_getNetworkProvider \/ Call_quickCheck \/ ProviderSteps
            \/ QuickCheckOk \/ QuickCheckFail]_vars

\* Organization / ISP strings as the IP-info services report them: an
\* optional AS-number prefix or leading blank, a name, an optional trailing
\* blank; and the absent and the empty string.
NamePrefixes == {"", "AS12345 ", "as77  ", "AS ", " "}

NameBodies ==
    {"MTN Nigeria Communications", "mtn", "Airtel Networks", "Globacom Limited",
     "GLO Mobile", "Global Crossing", "9mobile", "Emerging Markets Etisalat",
     "Vodafone", "Orange S.A.", "Verizon Business", "AT&T Services",
     "Seattle Fibre", "T-Mobile USA", "Telkom SA", "Some Random Telco",
     "Airtel MTN", "Orange Vodafone", "Telkom T-Mobile", "Verizon 9Mobile",
     "AS", "AS123", "AS123x Net", "AS55\tCable One", ""}

NameSuffixes == {"", "  "}

SampleNames ==
    {Null} \cup {Str(p \o b \o x) : p \in NamePrefixes, b \in NameBodies,
                                     x \in NameSuffixes}

\* normalizeProviderName on a string the lookup hands it (lines 295, 302)
Call_normalizeProviderName ==
    /\ call = "none"
    /\ \E orgString \in SampleNames :
          /\ arg' = orgString
          /\ ret' = Returned(normalizeProviderName(orgString))
    /\ call' = "normalizeProviderName"
    /\ UNCHANGED <<fixed, now, pc, lat, dl, ul, run, qc, ppc, prov>>

SpecNormalize ==
    InitWith({NoOptions}, Transport) /\ [][Call_normalizeProviderName]_vars

RunOptions ==
    [downloadTestDuration |-> 1, uploadTestDuration |-> 1,
     latencyTestCount |-> 2, testFileSize |-> 12500000]

\* A network on which any request may settle at once or take its time.
LiveTransport ==
    [probeDelays    |-> {0, 100},
     failDelays     |-> {0, 100},
     transferDelays |-> {0, 1000},
     postDelays     |-> {0, 1000},
     bodySizes      |-> {0, 12500000},
     chunkSizes     |-> {0, 12500000},
     lookupDelays   |-> {0},
     answers        |-> {MtnData}]

LiveOptions ==
    [downloadTestDuration |-> 1, uploadTestDuration |-> 1,
     latencyTestCount |-> 2, testFileSize |-> 12500000]

LiveNext ==
    \/ Call_testLatency \/ Call_testDownloadSpeed \/ Call_testUploadSpeed
    \/ LatencySteps \/ DownloadSteps \/ UploadSteps

\* The three sub-tests under the provisos of a run that goes on: every step
\* that can be taken is taken in the end (an awaited operation settles, the
\* code after it runs), and the reading of the clock does not stay the same
\* for ever while operations settle.
SpecLive ==
    /\ InitWith({NoOptions, LiveOptions}, LiveTransport)
    /\ [][LiveNext]_vars
    /\ WF_vars(LiveNext)
    /\ SF_vars(LiveNext /\ now' > now)

\* the two helper functions, on a fast network
SpecStatus ==
    /\ InitWith({NoOptions}, FastTransport)
    /\ [][Call_isNetworkGood \/ Call_getNetworkStatus
            \/ LatencySteps \/ DownloadSteps \/ UploadSteps \/ ProviderSteps]_vars

\* Options objects a caller passes: none, some fields, all fields, and
\* fields the tester does not know.
SampleOptions ==
    {NoOptions,
     [latencyTestCount |-> 2],
     [downloadTestDuration |-> 1, uploadTestDuration |-> 2],
     RunOptions,
     [testFileSize |-> 12500000, verbose |-> TRUE],
     [latencyTestCount |-> 1, timeout |-> 30, retries |-> 3]}

\* every method of a tester constructed with any of the sample options
SpecConfig ==
    /\ InitWith(SampleOptions, CoarseTransport)
    /\ [][Call_runSpeedTest \/ Call_testLatency \/ Call_testDownloadSpeed
            \/ Call_testUploadSpeed \/ Call_analyzeQuality
            \/ Call_getNetworkProvider \/ Call_quickCheck
            \/ LatencySteps \/ DownloadSteps \/ UploadSteps \/ ProviderSteps
            \/ QuickCheckOk \/ QuickCheckFail]_vars

SpecRun ==
    /\ InitWith({RunOptions}, CoarseTransport)
    /\ [][Call_runSpeedTest \/ Call_isNetworkGood \/ Call_getNetworkStatus
            \/ LatencySteps \/ DownloadSteps \/ UploadSteps \/ ProviderSteps]_vars

-----------------------------------------------------------------------------
(* Properties.                                                             *)

Num(v) == [kind |-> "num", v |-> v]

\* The tier rules as the specification lists them, in hundredths of a Mbps
\* and in ms; the fourth rule does not look at the latency.
C1_Rules ==
    <<[tier |-> "excellent", d |-> 5000, u |-> 1000, l |-> 30,  lat |-> TRUE],
      [tier |-> "good",      d |-> 2500, u |-> 500,  l |-> 50,  lat |-> TRUE],
      [tier |-> "fair",      d |-> 1000, u |-> 200,  l |-> 100, lat |-> TRUE],
      [tier |-> "poor",      d |-> 500,  u |-> 100,  l |-> 0,   lat |-> FALSE]>>

C1_Matches(r, rule) ==
    /\ r.downloadSpeed.v >= rule.d
    /\ r.uploadSpeed.v >= rule.u
    /\ rule.lat => r.latency.n <= rule.l * r.latency.d

C1_FirstMatch(r) ==
    LET hits == {i \in 1..Len(C1_Rules) : C1_Matches(r, C1_Rules[i])}
    IN  IF hits = {} THEN "very-poor"
        ELSE C1_Rules[CHOOSE i \in hits : \A j \in hits : i <= j].tier

\* C1: for every result with download, upload and latency >= 0,
\* analyzeQuality returns (never raises) the tier of the first rule that
\* matches in the order excellent, good, fair, poor, else very-poor; so
\* (50, 10, 30) is excellent and (49.9, 10, 30) is good.
C1_AnalyzeQualityFirstMatch ==
    call = "analyzeQuality" =>
        /\ ret.kind = "return"
        /\ ret.value.quality = C1_FirstMatch(arg)
        /\ (arg.downloadSpeed = Num(5000) /\ arg.uploadSpeed = Num(1000)
                /\ arg.latency = Frac(30, 1)) => ret.value.quality = "excellent"
        /\ (arg.downloadSpeed = Num(4990) /\ arg.uploadSpeed = Num(1000)
                /\ arg.latency = Frac(30, 1)) => ret.value.quality = "good"

\* C1 witness: (49.9, 10, 30) has been classified, as good.
C1_Witness ==
    /\ call = "analyzeQuality"
    /\ arg = [downloadSpeed |-> Num(4990), uploadSpeed |-> Num(1000),
              latency |-> Frac(30, 1)]
    /\ ret = Returned(analyzeQuality(arg))
    /\ ret.value.quality = "good"

\* the successful probes of the latency run, in order
C2_Successes == SelectSeq(lat.probes, LAMBDA p : p.ok)

\* C2: testLatency raises if and only if, after latencyTestCount probe
\* attempts, no probe has succeeded; with at least one success it returns
\* statistics.
C2_LatencyRaisesIffNoSample ==
    (call = "testLatency" /\ ret # None) =>
        /\ Len(lat.probes) = options.latencyTestCount
        /\ ret.kind \in {"throw", "return"}
        /\ ret.kind = "throw" <=> Len(C2_Successes) = 0

\* C2 witness: 2 successes out of 5 attempts, and statistics returned.
C2_Witness ==
    /\ call = "testLatency"
    /\ ret.kind = "return"
    /\ Len(lat.probes) = 5
    /\ Len(C2_Successes) = 2

\* C3 (as claimed): when every network request has failed,
\* testDownloadSpeed and testUploadSpeed each return 0 and do not raise.
C3_AllFailedReturnsZero ==
    /\ (call = "testDownloadSpeed" /\ ret # None /\ ~dl.anyOk)
            => ret = Returned(Num(0))
    /\ (call = "testUploadSpeed" /\ ret # None /\ ~ul.anyOk)
            => ret = Returned(Num(0))

RunCalls == {"runSpeedTest", "isNetworkGood", "getNetworkStatus"}

\* C4 (as claimed): runSpeedTest, isNetworkGood and getNetworkStatus never
\* raise to the caller, whatever requests fail.
C4_AggregatesNeverRaise ==
    call \in RunCalls => ret.kind # "throw"

\* C4 (amended): runSpeedTest, isNetworkGood and getNetworkStatus raise
\* exactly when the latency sub-test ended with no sample, with the error of
\* testLatency; no failure of a download, upload or provider request makes
\* them raise, and getNetworkStatus reports an absent provider when every
\* service failed.
C4_AggregatesRaiseIffNoLatencySample ==
    (call \in RunCalls /\ ret # None) =>
        /\ ret.kind \in {"throw", "return"}
        /\ ret.kind = "throw" <=>
              (Len(lat.probes) = options.latencyTestCount /\ Len(C2_Successes) = 0)
        /\ ret.kind = "throw" => ret.value = "All latency tests failed"
        /\ (ret.kind = "return" /\ call = "getNetworkStatus"
                /\ prov.result = Returned(NoProvider))
              => ret.value.provider = Null

\* C4 witness: getNetworkStatus has returned although every download,
\* upload and provider request failed.
C4_Witness ==
    /\ call = "getNetworkStatus"
    /\ ret.kind = "return"
    /\ ~dl.anyOk /\ ~ul.anyOk
    /\ prov.queried = Services /\ prov.result = Returned(NoProvider)
    /\ ret.value.speed = Num(0)
    /\ ret.value.provider = Null

C5_Samples == [i \in 1..Len(C2_Successes) |-> C2_Successes[i].sample]

\* C5: on success testLatency returns statistics over exactly the durations
\* of the successful probes: avg their mean, jitter the mean of
\* |sample - avg|, min and max their extrema; [100,120,110,90,130] gives
\* avg 110, jitter 12, min 90, max 130.
C5_LatencyStatsOverSuccesses ==
    (call = "testLatency" /\ ret.kind = "return") =>
        LET xs == C5_Samples
            n == Len(xs)
            S == SeqSum(xs)
            st == ret.value
        IN  /\ n >= 1
            /\ st.avg.n * n = S * st.avg.d
            /\ st.jitter.n * n * n =
                  st.jitter.d * SeqSum([i \in 1..n |-> Abs(n * xs[i] - S)])
            /\ \A i \in 1..n : st.min <= xs[i] /\ xs[i] <= st.max
            /\ \E i \in 1..n : st.min = xs[i]
            /\ \E i \in 1..n : st.max = xs[i]
            /\ xs = <<100, 120, 110, 90, 130>> =>
                  /\ st.avg.n = 110 * st.avg.d
                  /\ st.jitter.n = 12 * st.jitter.d
                  /\ st.min = 90 /\ st.max = 130

\* C5 witness: the five probes took 100, 120, 110, 90 and 130 ms.
C5_Witness ==
    /\ call = "testLatency"
    /\ ret.kind = "return"
    /\ C5_Samples = <<100, 120, 110, 90, 130>>

C7_ProviderFirstAnswerWins ==
    call = "getNetworkProvider" =>
        /\ prov.queried = SubSeq(Services, 1, Len(prov.queried))
        /\ ret.kind # "throw"
        /\ ppc \in {"prov_fetch", "prov_json"} => Len(prov.queried) = prov.service
        /\ ppc = "prov_loop" => Len(prov.queried) = prov.service - 1
        /\ (ppc = "done" /\ prov.service <= Len(Services)) =>
              /\ Len(prov.queried) = prov.service
              /\ ret.kind = "return"
        /\ (ppc = "done" /\ prov.service > Len(Services)) =>
              /\ prov.queried = Services
              /\ ret = Returned([name |-> Null, country |-> Null,
                                  isp |-> Null, asn |-> Null])

\* C7 witness: both services failed, and the absent provider was returned.
C7_Witness ==
    /\ call = "getNetworkProvider"
    /\ ppc = "done"
    /\ prov.queried = <<"ipapi.co", "ip-api.com">>
    /\ ret = Returned(NoProvider)

RunOrder == <<"latency.start", "latency.end", "download.start", "download.end",
              "upload.start", "upload.end", "timestamp">>

\* C8: runSpeedTest runs the latency, the download and the upload sub-test
\* one after the other, each starting only after the one before has ended,
\* and stamps the time only after the upload sub-test has ended; the
\* result's latency and jitter are the avg and jitter of the latency
\* statistics.
C8_RunSequential ==
    call \in RunCalls =>
        /\ run.events = SubSeq(RunOrder, 1, Len(run.events))
        /\ pc \in {"lat_loop", "lat_wait"} => run.events = <<"latency.start">>
        /\ pc \in {"dl_loop", "dl_fetch", "dl_stream", "dl_read", "dl_buffer"} =>
              /\ Len(run.events) = 3
              /\ Len(lat.probes) = options.latencyTestCount
              /\ run.latency = LatencyStats(lat.latencies)
              /\ dl.startTime >= lat.start
        /\ pc \in {"ul_loop", "ul_post"} =>
              /\ Len(run.events) = 5
              /\ run.downloadSpeed.kind = "num"
              /\ now >= dl.endTime
              /\ ul.startTime >= dl.endTime
        /\ run.result.kind = "return" =>
              /\ pc = "done"
              /\ run.events = RunOrder
              /\ run.result.value.latency = run.latency.avg
              /\ run.result.value.jitter = run.latency.jitter
              /\ run.result.value.downloadSpeed = run.downloadSpeed
              /\ run.result.value.uploadSpeed = run.uploadSpeed
              /\ run.result.value.timestamp >= ul.startTime
              /\ run.result.value.timestamp = now
        /\ (call = "runSpeedTest" /\ ret.kind = "return") => ret = run.result

\* C8 witness: a run with two latency samples, a download and an upload
\* that moved bytes, returned to the caller.
C8_Witness ==
    /\ call = "runSpeedTest"
    /\ ret.kind = "return"
    /\ run.events = RunOrder
    /\ Len(lat.latencies) = 2
    /\ dl.totalBytes > 0 /\ ul.totalBytes > 0
    /\ ret.value.latency = Frac(40, 2)
    /\ ret.value.jitter = Frac(80, 4)
    /\ ret.value.timestamp > 0

\* C9: quickCheck never raises; if its probe succeeds it returns
\* isOnline = true with the measured latency, which is >= 0; on a failure it
\* returns isOnline = false with latency -1; so isOnline is false exactly
\* when the latency is -1.
C9_QuickCheckSentinel ==
    (call = "quickCheck" /\ ret # None) =>
        /\ ret.kind = "return"
        /\ qc.outcome \in {"ok", "failed"}
        /\ qc.outcome = "ok" =>
              /\ ret.value = [isOnline |-> TRUE, latency |-> qc.end - qc.start]
              /\ ret.value.latency >= 0
        /\ qc.outcome = "failed" =>
              ret.value = [isOnline |-> FALSE, latency |-> -1]
        /\ ret.value.isOnline = FALSE <=> ret.value.latency = -1

\* C9 witness: the probe failed and quickCheck returned offline, -1.
C9_Witness ==
    /\ call = "quickCheck"
    /\ qc.outcome = "failed"
    /\ ret = Returned([isOnline |-> FALSE, latency |-> -1])

\* floor and remainder of a * m / D by halving m: a * m = q * D + r
RECURSIVE C10_MulDiv(_, _, _)
C10_MulDiv(a, m, D) ==
    IF m = 0 THEN [q |-> 0, r |-> 0]
    ELSE LET h == C10_MulDiv(a, m \div 2, D)
             q2 == (2 * h.q) + ((2 * h.r) \div D)
             r2 == (2 * h.r) % D
         IN  IF m % 2 = 0 THEN [q |-> q2, r |-> r2]
             ELSE [q |-> q2 + (a \div D) + ((r2 + (a % D)) \div D),
                   r |-> (r2 + (a % D)) % D]

\* (bytes / (ms / 1000)) * 8 / 1048576, in hundredths, to the nearest one:
\* bytes * 1000 * 8 * 100 / (1048576 * ms) = bytes * 25000 / (32768 * ms)
C10_Expected(bytes, ms) ==
    LET x == C10_MulDiv(bytes, 25000, 32768 * ms)
    IN  x.q + (IF 2 * x.r >= 32768 * ms THEN 1 ELSE 0)

\* C10: the throughput that testDownloadSpeed and testUploadSpeed report is
\* (totalBytes / elapsedSeconds) * 8 / 1048576 rounded to 2 decimals, with
\* the elapsed time measured from the start to the end of the loop and not
\* the configured duration; 12,500,000 bytes in a measured 2.0 s is 47.68.
C10_ThroughputFormula ==
    /\ (call = "testDownloadSpeed" /\ ret # None /\ now > dl.startTime) =>
          /\ ret = Returned(Num(C10_Expected(dl.totalBytes, now - dl.startTime)))
          /\ (dl.totalBytes = 12500000 /\ now - dl.startTime = 2000)
                => ret.value.v = 4768
    /\ (call = "testUploadSpeed" /\ ret # None /\ now > ul.startTime) =>
          /\ ret = Returned(Num(C10_Expected(ul.totalBytes, now - ul.startTime)))
          /\ (ul.totalBytes = 102400 /\ now - ul.startTime = 1000)
                => ret.value.v = 78

\* C10 witness: 12,500,000 bytes downloaded in a measured 2.0 s, which is
\* not the configured duration, reported as 47.68.
C10_Witness ==
    /\ call = "testDownloadSpeed"
    /\ dl.totalBytes = 12500000
    /\ now - dl.startTime = 2000
    /\ options.downloadTestDuration * 1000 # 2000
    /\ ret = Returned(Num(4768))

\* The carrier rules as the specification lists them, in priority order.
C11_Rules ==
    <<[keys |-> {"mtn"},                 name |-> "MTN"],
      [keys |-> {"airtel"},              name |-> "Airtel"],
      [keys |-> {"glo", "globacom"},     name |-> "Glo"],
      [keys |-> {"9mobile", "etisalat"}, name |-> "9mobile"],
      [keys |-> {"vodafone"},            name |-> "Vodafone"],
      [keys |-> {"orange"},              name |-> "Orange"],
      [keys |-> {"verizon"},             name |-> "Verizon"],
      [keys |-> {"at&t", "att"},         name |-> "AT&T"],
      [keys |-> {"t-mobile"},            name |-> "T-Mobile"],
      [keys |-> {"telkom"},              name |-> "Telkom"]>>

C11_Fold ==
    {<<"A", "a">>, <<"B", "b">>, <<"C", "c">>, <<"D", "d">>, <<"E", "e">>,
     <<"F", "f">>, <<"G", "g">>, <<"H", "h">>, <<"I", "i">>, <<"J", "j">>,
     <<"K", "k">>, <<"L", "l">>, <<"M", "m">>, <<"N", "n">>, <<"O", "o">>,
     <<"P", "p">>, <<"Q", "q">>, <<"R", "r">>, <<"S", "s">>, <<"T", "t">>,
     <<"U", "u">>, <<"V", "v">>, <<"W", "w">>, <<"X", "x">>, <<"Y", "y">>,
     <<"Z", "z">>}

\* s and t are the same string up to the case of the letters
C11_SameFolded(s, t) ==
    /\ Len(s) = Len(t)
    /\ \A i \in 1..Len(s) :
          \/ SubSeq(s, i, i) = SubSeq(t, i, i)
          \/ <<SubSeq(s, i, i), SubSeq(t, i, i)>> \in C11_Fold

\* the lower-cased s contains the (lower-case) key
C11_Contains(s, key) ==
    \E i \in 1..Len(s) : \E j \in i..Len(s) : C11_SameFolded(SubSeq(s, i, j), key)

C11_Blank(c) == c = " " \/ c = "\t"

\* s without the white space around it
C11_Trimmed(s) ==
    LET inked == {i \in 1..Len(s) : ~C11_Blank(SubSeq(s, i, i))}
    IN  IF inked = {} THEN ""
        ELSE SubSeq(s, CHOOSE i \in inked : \A j \in inked : i <= j,
                       CHOOSE i \in inked : \A j \in inked : i >= j)

\* s without a leading 'AS<digits> ' (in either case), trimmed
C11_Cleaned(s) ==
    LET runs == {n \in 1..(Len(s) - 3) :
                    /\ \A i \in 3..(2 + n) :
                          SubSeq(s, i, i) \in {"0", "1", "2", "3", "4", "5", "6",
                                              "7", "8", "9"}
                    /\ C11_Blank(SubSeq(s, 3 + n, 3 + n))}
    IN  IF runs # {} /\ SubSeq(s, 1, 2) \in {"AS", "As", "aS", "as"}
        THEN C11_Trimmed(SubSeq(s, 4 + (CHOOSE n \in runs : TRUE), Len(s)))
        ELSE C11_Trimmed(s)

C11_Expected(v) ==
    IF v = Null \/ v = Str("") THEN Null
    ELSE LET hits == {i \in 1..Len(C11_Rules) :
                        \E key \in C11_Rules[i].keys : C11_Contains(v.s, key)}
         IN  IF hits # {}
             THEN Str(C11_Rules[CHOOSE i \in hits : \A j \in hits : i <= j].name)
             ELSE Str(C11_Cleaned(v.s))

\* C11: normalizeProviderName returns the name of the first carrier rule,
\* in the listed order, one of whose keys occurs in the lower-cased input;
\* if no rule matches, the input with a leading 'AS<digits> ' stripped (in
\* either case) and trimmed; an absent or empty input gives an absent
\* output.  So 'AS12345 MTN Nigeria Communications' gives 'MTN' and
\* 'AS9999 Some Random Telco' gives 'Some Random Telco'.
C11_NormalizeRuleList ==
    /\ call = "normalizeProviderName" => ret = Returned(C11_Expected(arg))
    /\ normalizeProviderName(Str("AS12345 MTN Nigeria Communications")) = Str("MTN")
    /\ normalizeProviderName(Str("AS9999 Some Random Telco"))
            = Str("Some Random Telco")

\* C11 witness: a string no rule matches, with a lower-case AS prefix and
\* a trailing blank, has been cleaned.
C11_Witness ==
    /\ call = "normalizeProviderName"
    /\ arg = Str("as77  Some Random Telco  ")
    /\ ret = Returned(Str("Some Random Telco"))

\* The defaults as the specification states them.
C12_Defaults ==
    [downloadTestDuration |-> 5, uploadTestDuration |-> 5,
     latencyTestCount |-> 5, testFileSize |-> 102400]

\* the value the specification gives field k of the configuration
C12_Field(k) == IF k \in DOMAIN supplied THEN supplied[k] ELSE C12_Defaults[k]

\* C12: whatever options object the constructor was given, in every state
\* of every operation each of the four recognized fields of the
\* configuration is the supplied value if one was supplied and else its
\* default (5, 5, 5, 102400); keys the tester does not know change nothing;
\* and the operations run on exactly these values: the deadlines are the
\* configured durations after the start, the latency test makes the
\* configured number of attempts, an upload moves the configured size.
C12_ConfigMergedAndFixed ==
    /\ \A k \in DOMAIN C12_Defaults : options[k] = C12_Field(k)
    /\ dl # DlIdle =>
          dl.endTime - dl.startTime = 1000 * C12_Field("downloadTestDuration")
    /\ ul # UlIdle =>
          /\ ul.endTime - ul.startTime = 1000 * C12_Field("uploadTestDuration")
          /\ ul.totalBytes % C12_Field("testFileSize") = 0
    /\ Len(lat.probes) <= C12_Field("latencyTestCount")
    /\ (call = "testLatency" /\ ret # None) =>
          Len(lat.probes) = C12_Field("latencyTestCount")

\* C12 witness: a tester given one recognized and two unknown fields has
\* completed a full run with one latency attempt and default durations.
C12_Witness ==
    /\ supplied = [latencyTestCount |-> 1, timeout |-> 30, retries |-> 3]
    /\ call = "runSpeedTest"
    /\ ret.kind = "return"
    /\ Len(lat.probes) = 1
    /\ options.latencyTestCount = 1
    /\ options.downloadTestDuration = 5
    /\ dl.endTime - dl.startTime = 5000
    /\ options.testFileSize = 102400

C13_AtLeast(speed, hundredths) ==
    speed.kind = "inf" \/ (speed.kind = "num" /\ speed.v >= hundredths)

\* the tier of a completed run by the rules of the specification
C13_Tier(r) ==
    LET hits == {i \in 1..Len(C1_Rules) :
                    /\ C13_AtLeast(r.downloadSpeed, C1_Rules[i].d)
                    /\ C13_AtLeast(r.uploadSpeed, C1_Rules[i].u)
                    /\ C1_Rules[i].lat => r.latency.n <= C1_Rules[i].l * r.latency.d}
    IN  IF hits = {} THEN "very-poor"
        ELSE C1_Rules[CHOOSE i \in hits : \A j \in hits : i <= j].tier

\* C13: isNetworkGood returns, once the full run has completed, true if
\* and only if the tier classified from that run is excellent or good;
\* getNetworkStatus returns, once the run and the provider lookup have both
\* completed, a bundle whose quality is the tier classified from the run,
\* whose isGood is true if and only if that quality is excellent or good,
\* whose speed is the download Mbps of the run and whose provider is the
\* name the lookup returned.
C13_HelpersReportTheRun ==
    /\ (call = "isNetworkGood" /\ run.result.kind = "return") =>
          ret = Returned(C13_Tier(run.result.value) \in {"excellent", "good"})
    /\ (call = "isNetworkGood" /\ ret.kind = "return") => run.result.kind = "return"
    /\ (call = "getNetworkStatus" /\ ret.kind = "return") =>
          /\ run.result.kind = "return"
          /\ prov.result.kind = "return"
    /\ (call = "getNetworkStatus" /\ run.result.kind = "return"
            /\ prov.result.kind = "return") =>
          /\ ret.kind = "return"
          /\ ret.value.quality = C13_Tier(run.result.value)
          /\ ret.value.isGood = (ret.value.quality \in {"excellent", "good"})
          /\ ret.value.speed = run.result.value.downloadSpeed
          /\ ret.value.provider = prov.result.value.name

\* C13 witness: getNetworkStatus has reported a good network (38.15 Mbps
\* down) of the provider MTN.
C13_Witness ==
    /\ call = "getNetworkStatus"
    /\ ret = Returned([isGood |-> TRUE, quality |-> "good", speed |-> Num(3815),
                       provider |-> Str("MTN")])
    /\ run.result.value.uploadSpeed = Num(625)

\* C14 (as claimed): once the clock has reached the deadline neither
\* sub-test starts a request and the download starts no body read, so that
\* at most one operation of a run completes at or past its deadline.
C14_NothingStartsAfterDeadline ==
    /\ dl.late = {} /\ dl.after <= 1
    /\ ul.late = {} /\ ul.after <= 1

\* C14 (amended): once the clock has reached the deadline neither sub-test
\* sends a request (GET or POST) and the download starts no read of a
\* streamed body; the read of a whole body (arrayBuffer) is started as soon
\* as its GET has resolved, whatever the clock says.  So at most one
\* operation of an upload, and of a download that streams, completes at or
\* past the deadline, and at most two of a download that reads whole
\* bodies: the GET in flight at the deadline and the read of its body.
C14_NoRequestStartsAfterDeadline ==
    /\ dl.late \subseteq {"buffer"}
    /\ dl.after <= 2
    /\ dl.after = 2 => "buffer" \in dl.late
    /\ pc \in {"dl_fetch", "dl_read"} => now < dl.endTime
    /\ ul.late = {} /\ ul.after <= 1
    /\ pc = "ul_post" => now < ul.endTime

\* C14 witness: a download returned after a GET that outlived the
\* deadline and the read of its whole body.
C14_Witness ==
    /\ call = "testDownloadSpeed"
    /\ ret.kind = "return"
    /\ dl.late = {"buffer"}
    /\ dl.after = 2
    /\ dl.totalBytes > 0

\* the positions at which a task waits for the network
C15_MeasuringInFlight ==
    pc \in {"lat_wait", "dl_fetch", "dl_read", "dl_buffer", "ul_post", "qc_wait"}

C15_LookupInFlight == ppc \in {"prov_fetch", "prov_json"}

\* C15 (as claimed): at no time are two network requests of one tester in
\* flight together, in any public operation, getNetworkStatus included.
C15_OneRequestAtATime == ~(C15_MeasuringInFlight /\ C15_LookupInFlight)

\* the POSTs of the upload that have completed without error
C16_Completed ==
    ul.posts - (IF pc = "ul_post" \/ ul.failed THEN 1 ELSE 0)

\* C16: in testUploadSpeed the byte total is at every moment testFileSize
\* times the number of POSTs that completed without error; once a POST has
\* errored the upload is over: nothing is counted for that POST, no further
\* POST is issued, and the result is computed from the total as it stood.
C16_UploadStopsAtFirstError ==
    /\ [](call = "testUploadSpeed" =>
            /\ ul.totalBytes = options.testFileSize * C16_Completed
            /\ ul.failed =>
                  /\ pc = "done"
                  /\ ul.posts >= 1
                  /\ ret.kind = "return"
                  /\ ret.value =
                        IF now > ul.startTime
                        THEN Num(C10_Expected(options.testFileSize * C16_Completed,
                                              now - ul.startTime))
                        ELSE IF C16_Completed = 0 THEN [kind |-> "nan"]
                        ELSE [kind |-> "inf"])
    /\ [][ul.failed => (ul'.posts = ul.posts /\ ul'.totalBytes = ul.totalBytes)]_vars

\* C16 witness: the third POST errored after two that went through, and
\* the result was computed from two payloads.
C16_Witness ==
    /\ call = "testUploadSpeed"
    /\ ul.failed
    /\ ul.posts = 3
    /\ ul.totalBytes = 204800
    /\ now - ul.startTime = 3000
    /\ ret = Returned(Num(52))

\* the other endpoint of the two-endpoint list
C17_Other(k) == IF k = 1 THEN 2 ELSE 1

\* C17: in testDownloadSpeed the byte total never decreases; a GET that
\* fails ends nothing and leaves the total as it is; whenever the loop is
\* reached before the deadline a request follows; and every request goes
\* to the endpoint after the one of the request before it, the first to
\* the first endpoint and the one after the second to the first again.
C17_FailedGetMovesOn ==
    /\ [][call = "testDownloadSpeed" => dl'.totalBytes >= dl.totalBytes]_vars
    /\ [][(pc = "dl_fetch" /\ pc' = "dl_loop") =>
            /\ dl'.totalBytes = dl.totalBytes
            /\ ret' = None]_vars
    /\ [][(pc = "dl_loop" /\ pc' = "dl_fetch") =>
            dl'.last = IF dl.last = 0 THEN 1 ELSE C17_Other(dl.last)]_vars
    /\ []((pc = "dl_loop" /\ now < dl.endTime) =>
            (ret = None /\ ENABLED DownloadFetch))

\* C17 witness: no GET has gone through, time has passed, and a request
\* to the first endpoint is in flight once more.
C17_Witness ==
    /\ call = "testDownloadSpeed"
    /\ pc = "dl_fetch"
    /\ ~dl.anyOk
    /\ dl.last = 1
    /\ now > dl.startTime
    /\ now < dl.endTime

\* the endpoint of attempt number i (from 0): number i mod 3 of the list
C18_Endpoint(i) ==
    IF i % 3 = 0 THEN "www.cloudflare.com/cdn-cgi/trace"
    ELSE IF i % 3 = 1 THEN "www.google.com/generate_204"
    ELSE "1.1.1.1/cdn-cgi/trace"

\* C18: testLatency makes its attempts one at a time, attempt number i
\* (from 0) to endpoint number i mod 3 whatever became of the attempts
\* before it; it has made exactly latencyTestCount attempts when it ends;
\* and its samples are as many as the attempts that succeeded, so never
\* more than latencyTestCount.
C18_LatencyAttempts ==
    call = "testLatency" =>
        /\ \A k \in 1..Len(lat.probes) : lat.probes[k].url = C18_Endpoint(k - 1)
        /\ pc = "lat_wait" => lat.url = C18_Endpoint(Len(lat.probes))
        /\ Len(lat.probes) <= options.latencyTestCount
        /\ ret # None <=> (pc = "done" /\ Len(lat.probes) = options.latencyTestCount)
        /\ Len(lat.latencies) = Cardinality({k \in 1..Len(lat.probes) : lat.probes[k].ok})
        /\ Len(lat.latencies) <= options.latencyTestCount

\* C18 witness: five attempts of which the second and the third failed;
\* the fourth went to the first endpoint again, and three samples count.
C18_Witness ==
    /\ call = "testLatency"
    /\ ret.kind = "return"
    /\ Len(lat.probes) = 5
    /\ ~lat.probes[2].ok /\ ~lat.probes[3].ok
    /\ lat.probes[4].ok /\ lat.probes[4].url = "www.cloudflare.com/cdn-cgi/trace"
    /\ Len(lat.latencies) = 3

C19_Rank(tier) ==
    CASE tier = "very-poor" -> 0
      [] tier = "poor"      -> 1
      [] tier = "fair"      -> 2
      [] tier = "good"      -> 3
      [] tier = "excellent" -> 4

\* b has download and upload at least as high and latency at most as high
\* as a
C19_NoWorse(a, b) ==
    /\ b.downloadSpeed.v >= a.downloadSpeed.v
    /\ b.uploadSpeed.v >= a.uploadSpeed.v
    /\ b.latency.n * a.latency.d <= a.latency.n * b.latency.d

\* C19: analyzeQuality is monotone: a result with download and upload at
\* least as high and latency at most as high as the classified one gets a
\* tier at least as good, in the order very-poor < poor < fair < good <
\* excellent.
C19_QualityMonotone ==
    call = "analyzeQuality" =>
        \A better \in SampleResults :
            C19_NoWorse(arg, better) =>
                C19_Rank(analyzeQuality(better).quality) >= C19_Rank(ret.value.quality)

\* C19 witness: (24.99, 5, 50) has been classified as fair, and (25, 5, 50),
\* which is no worse in any measure, is good.
C19_Witness ==
    /\ call = "analyzeQuality"
    /\ arg = [downloadSpeed |-> Num(2499), uploadSpeed |-> Num(500),
              latency |-> Frac(50, 1)]
    /\ ret.value.quality = "fair"
    /\ C19_NoWorse(arg, [downloadSpeed |-> Num(2500), uploadSpeed |-> Num(500),
                         latency |-> Frac(50, 1)])
    /\ analyzeQuality([downloadSpeed |-> Num(2500), uploadSpeed |-> Num(500),
                       latency |-> Frac(50, 1)]).quality = "good"

\* C20: provided the clock keeps advancing and every operation on the
\* network settles, a call of testLatency, testDownloadSpeed or
\* testUploadSpeed returns or raises in the end, also when every request
\* fails at once.
C20_SubTestsTerminate ==
    (call \in {"testLatency", "testDownloadSpeed", "testUploadSpeed"})
        ~> (ret.kind \in {"return", "throw"})

\* C20 witness: a download of which every request failed has gone round
\* its endpoints up to the deadline and returned 0.
C20_Witness ==
    /\ call = "testDownloadSpeed"
    /\ ~dl.anyOk
    /\ dl.last = 2
    /\ now >= dl.endTime
    /\ ret = Returned(Num(0))

=============================================================================
